---------------------------- MODULE Spec2Model ----------------------------
(***************************************************************************)
(* The collector-number ordering rule of mtgjson (the card __lt__) and the *)
(* sorts built on it.                                                      *)
(*                                                                         *)
(* Text is a sequence of Unicode code points, so that Python's string      *)
(* comparison, len(), str.isdigit() and int() can be computed character by *)
(* character.  An optional text (a card's side) is a sequence of length at *)
(* most one: << >> is None and << s >> is the string s.                    *)
(* A call of the less-than function ends in one of three ways, written     *)
(* "True", "False" and "ValueError" (the exception int() raises).          *)
(***************************************************************************)
EXTENDS Integers, Sequences, FiniteSets

VARIABLES
    pc,          \* position of the running script
    A, B, C,     \* the keys (number, side) a comparison is called with
    ltAB, ltBA,  \* outcome of original_card_lt(A, B) and of original_card_lt(B, A)
    ltAA,        \* outcome of original_card_lt(A, A)
    ltBC, ltAC,  \* outcomes for the pairs (B, C) and (A, C)
    copies,      \* outcome of each copy of the rule on (A, B)
    test_group,  \* the list of cards being shuffled and sorted
    shuffle_i,   \* position the shuffle has still to draw for (1: shuffled)
    swaps,       \* draws of the current shuffle that moved a card
    perm_group,  \* the same cards as test_group in another input order
    frames       \* the local variables of each running call of the comparison

vars == <<pc, A, B, C, ltAB, ltBA, ltAA, ltBC, ltAC, copies,
          test_group, shuffle_i, swaps, perm_group, frames>>

lt_vars == <<A, B, C, ltAB, ltBA, ltAA, ltBC, ltAC, copies>>

sort_vars == <<test_group, shuffle_i, swaps, perm_group>>

---------------------------------------------------------------------------
(* Bounds of the model *)

\* longest generated number string of the pair specification
MaxLen == 2

\* longest number string of the triple specification
MaxLenTriple == 2

\* draws of one shuffle that may move a card (the other draws pick j = i)
MaxSwaps == 1

\* longest catalog of the catalog specification
MaxCatalog == 2

\* number of processes calling the comparison at the same time
NProcs == 2

\* longest generated list of the manual sort
MaxList == 3

---------------------------------------------------------------------------
(* Python text primitives *)

None == << >>

Some(s) == << s >>

\* the characters generated numbers are made of: '0', '1', 'a' and
\* SUPERSCRIPT TWO (U+00B2), a character for which str.isdigit() is True and
\* which int() does not accept
Alphabet == {48, 49, 97, 178}

\* str.isdigit() of one character: the decimal digits '0'..'9' and, of the
\* characters of this model, SUPERSCRIPT TWO
isdigit(x) == x \in 48..57 \/ x = 178

\* the characters int() converts
isdecimal(x) == x \in 48..57

\* only the characters '0'..'9' kept
join_isdecimal(number) == SelectSeq(number, isdecimal)

\* "".join(x for x in number if x.isdigit())
join_isdigit(number) == SelectSeq(number, isdigit)

\* the literal "100000"
Sentinel == <<49, 48, 48, 48, 48, 48>>

\* the substitution of "100000" left out
number_clean_no_sentinel(number) == join_isdigit(number)

\* "0" in place of "100000"
number_clean_zero(number) ==
    IF join_isdigit(number) = << >> THEN <<48>> ELSE join_isdigit(number)

\* "".join(x for x in number if x.isdigit()) or "100000"
number_clean(number) ==
    IF join_isdigit(number) = << >> THEN Sentinel ELSE join_isdigit(number)

\* int(s) raises ValueError
int_raises(s) == s = << >> \/ \E i \in 1..Len(s) : ~isdecimal(s[i])

\* the digits read from the last to the first
RECURSIVE py_int_reversed(_)
py_int_reversed(s) ==
    IF s = << >> THEN 0
    ELSE py_int_reversed(Tail(s)) * 10 + (s[1] - 48)

\* the value of the last digit alone
py_int_last_digit(s) == IF s = << >> THEN 0 ELSE s[Len(s)] - 48

\* int(s) for a string of decimal digits
RECURSIVE py_int(_)
py_int(s) ==
    IF s = << >> THEN 0
    ELSE py_int(SubSeq(s, 1, Len(s) - 1)) * 10 + (s[Len(s)] - 48)

\* s <= t in place of s < t
RECURSIVE str_le(_, _)
str_le(s, t) ==
    IF s = << >> THEN TRUE
    ELSE IF t = << >> THEN FALSE
    ELSE IF s[1] # t[1] THEN s[1] < t[1]
    ELSE str_le(Tail(s), Tail(t))

\* s < t on Python strings: lexicographic by code point, a proper prefix first
RECURSIVE str_lt(_, _)
str_lt(s, t) ==
    IF t = << >> THEN FALSE
    ELSE IF s = << >> THEN TRUE
    ELSE IF s[1] # t[1] THEN s[1] < t[1]
    ELSE str_lt(Tail(s), Tail(t))

\* str(side) in place of side or "": None gives "None"
or_empty_str(side) == IF side = None THEN <<78, 111, 110, 101>> ELSE side[1]

\* "-" standing for a missing side
or_empty_dash(side) == IF side = None THEN <<45>> ELSE side[1]

\* side or "": None and "" both give ""
or_empty(side) == IF side = None THEN << >> ELSE side[1]

\* a Python bool as the outcome of a call
pybool(b) == IF b THEN "True" ELSE "False"

---------------------------------------------------------------------------
(* original_card_lt, branch by branch *)

\* the length test of zero-padded numbers left out
lt_both_digit_no_length(self_clean, other_clean, self_int, other_int, self_side, other_side) ==
    IF self_int = other_int
    THEN str_lt(self_side, other_side)
    ELSE self_int < other_int

\* the sides compared before the lengths
lt_both_digit_side_first(self_clean, other_clean, self_int, other_int, self_side, other_side) ==
    IF self_int = other_int
    THEN IF self_side # other_side
         THEN str_lt(self_side, other_side)
         ELSE Len(self_clean) < Len(other_clean)
    ELSE self_int < other_int

\* the values compared and nothing else
lt_both_digit_value_only(self_clean, other_clean, self_int, other_int, self_side, other_side) ==
    self_int < other_int

\* if self_is_digit and other_is_digit:
lt_both_digit(self_clean, other_clean, self_int, other_int, self_side, other_side) ==
    IF self_int = other_int
    THEN IF Len(self_clean) # Len(other_clean)
         THEN Len(self_clean) < Len(other_clean)
         ELSE str_lt(self_side, other_side)
    ELSE self_int < other_int

\* the equal-value case left out
lt_self_digit_plain(self_int, other_int) == self_int < other_int

\* the equal-value case answering False as in the branch below it
lt_self_digit_false(self_int, other_int) ==
    IF self_int = other_int THEN FALSE ELSE self_int < other_int

\* if self_is_digit:
lt_self_digit(self_int, other_int) ==
    IF self_int = other_int THEN TRUE ELSE self_int < other_int

\* the equal-value case answering True as in the branch above it
lt_other_digit_true(self_int, other_int) ==
    IF self_int = other_int THEN TRUE ELSE self_int < other_int

\* if other_is_digit:
lt_other_digit(self_int, other_int) ==
    IF self_int = other_int THEN FALSE ELSE self_int < other_int

\* 'or' in place of 'and' in the test of the sides
lt_same_clean_or(self_number, other_number, self_side, other_side) ==
    IF self_side = << >> \/ other_side = << >>
    THEN str_lt(self_number, other_number)
    ELSE str_lt(self_side, other_side)

\* the lexical comparison of the numbers left out
lt_same_clean_sides_only(self_number, other_number, self_side, other_side) ==
    str_lt(self_side, other_side)

\* the same digit run taken for the same number
lt_same_clean_false(self_number, other_number, self_side, other_side) == FALSE

\* if self_number_clean == other_number_clean:
lt_same_clean(self_number, other_number, self_side, other_side) ==
    IF self_side = << >> /\ other_side = << >>
    THEN str_lt(self_number, other_number)
    ELSE str_lt(self_side, other_side)

\* the longer digit run first
lt_neither_digit_longer_first(self_clean, other_clean, self_int, other_int, self_side, other_side) ==
    IF self_int = other_int
    THEN IF Len(self_clean) # Len(other_clean)
         THEN Len(self_clean) > Len(other_clean)
         ELSE str_lt(self_side, other_side)
    ELSE self_int < other_int

\* the digit runs compared as strings in place of their values
lt_neither_digit_lexical(self_clean, other_clean, self_int, other_int, self_side, other_side) ==
    IF self_int = other_int
    THEN IF Len(self_clean) # Len(other_clean)
         THEN Len(self_clean) < Len(other_clean)
         ELSE str_lt(self_side, other_side)
    ELSE str_lt(self_clean, other_clean)

\* the length test of the digit runs left out
lt_neither_digit_no_length(self_clean, other_clean, self_int, other_int, self_side, other_side) ==
    IF self_int = other_int
    THEN str_lt(self_side, other_side)
    ELSE self_int < other_int

\* the sides compared before the lengths of the digit runs
lt_neither_digit_side_first(self_clean, other_clean, self_int, other_int, self_side, other_side) ==
    IF self_int = other_int
    THEN IF self_side # other_side
         THEN str_lt(self_side, other_side)
         ELSE Len(self_clean) < Len(other_clean)
    ELSE self_int < other_int

\* if self_number_clean_int == other_number_clean_int: ... and the last return
lt_neither_digit(self_clean, other_clean, self_int, other_int, self_side, other_side) ==
    IF self_int = other_int
    THEN IF Len(self_clean) # Len(other_clean)
         THEN Len(self_clean) < Len(other_clean)
         ELSE str_lt(self_side, other_side)
    ELSE self_int < other_int

original_card_lt(self_number, self_side_in, other_number, other_side_in) ==
    IF self_number = other_number
    THEN pybool(str_lt(or_empty(self_side_in), or_empty(other_side_in)))
    ELSE
    LET self_side == or_empty(self_side_in)
        other_side == or_empty(other_side_in)
        self_number_clean == number_clean(self_number)
        other_number_clean == number_clean(other_number)
    IN  IF int_raises(self_number_clean) \/ int_raises(other_number_clean)
        THEN "ValueError"
        ELSE
        LET self_number_clean_int == py_int(self_number_clean)
            other_number_clean_int == py_int(other_number_clean)
            self_is_digit == self_number = self_number_clean
            other_is_digit == other_number = other_number_clean
        IN  pybool(
            IF self_is_digit /\ other_is_digit
            THEN lt_both_digit(self_number_clean, other_number_clean,
                               self_number_clean_int, other_number_clean_int,
                               self_side, other_side)
            ELSE IF self_is_digit
            THEN lt_self_digit(self_number_clean_int, other_number_clean_int)
            ELSE IF other_is_digit
            THEN lt_other_digit(self_number_clean_int, other_number_clean_int)
            ELSE IF self_number_clean = other_number_clean
            THEN lt_same_clean(self_number, other_number, self_side, other_side)
            ELSE lt_neither_digit(self_number_clean, other_number_clean,
                                  self_number_clean_int, other_number_clean_int,
                                  self_side, other_side))

\* the line original_card_lt leaves by: that of the return statement it
\* executes, or that of the int() call that raises
lt_return_line(self_number, self_side_in, other_number, other_side_in) ==
    IF self_number = other_number THEN 4
    ELSE
    LET self_side == or_empty(self_side_in)
        other_side == or_empty(other_side_in)
        self_number_clean == number_clean(self_number)
        other_number_clean == number_clean(other_number)
    IN  IF int_raises(self_number_clean) THEN 10
        ELSE IF int_raises(other_number_clean) THEN 13
        ELSE
        LET self_number_clean_int == py_int(self_number_clean)
            other_number_clean_int == py_int(other_number_clean)
            self_is_digit == self_number = self_number_clean
            other_is_digit == other_number = other_number_clean
            same_int == self_number_clean_int = other_number_clean_int
            same_len == Len(self_number_clean) = Len(other_number_clean)
        IN  IF self_is_digit /\ other_is_digit
            THEN IF same_int THEN (IF ~same_len THEN 22 ELSE 23) ELSE 24
            ELSE IF self_is_digit
            THEN IF same_int THEN 28 ELSE 29
            ELSE IF other_is_digit
            THEN IF same_int THEN 33 ELSE 34
            ELSE IF self_number_clean = other_number_clean
            THEN IF self_side = << >> /\ other_side = << >> THEN 40 ELSE 41
            ELSE IF same_int THEN (IF ~same_len THEN 46 ELSE 47) ELSE 49

\* the line card1.__lt__(card2) leaves by
card_return_line(x, y) == lt_return_line(x.number, x.side, y.number, y.side)

\* the integers of two digit runs compared as the rule compares them:
\* int(...) of each, then == and <
int_compare(self_number_clean, other_number_clean) ==
    LET self_number_clean_int == py_int(self_number_clean)
        other_number_clean_int == py_int(other_number_clean)
    IN  IF self_number_clean_int = other_number_clean_int THEN "Equal"
        ELSE IF self_number_clean_int < other_number_clean_int THEN "Less"
        ELSE "Greater"

\* card1.__lt__(card2) on keys
card_lt(x, y) == original_card_lt(x.number, x.side, y.number, y.side)

---------------------------------------------------------------------------
(* The other copies of the rule *)

\* debug_python_sort.py
python_card_lt(self_number, self_side_in, other_number, other_side_in) ==
    IF self_number = other_number
    THEN pybool(str_lt(or_empty(self_side_in), or_empty(other_side_in)))
    ELSE
    LET self_side == or_empty(self_side_in)
        other_side == or_empty(other_side_in)
        self_number_clean == number_clean(self_number)
        other_number_clean == number_clean(other_number)
    IN  IF int_raises(self_number_clean) \/ int_raises(other_number_clean)
        THEN "ValueError"
        ELSE
        LET self_number_clean_int == py_int(self_number_clean)
            other_number_clean_int == py_int(other_number_clean)
        IN  pybool(
            IF self_number = self_number_clean /\ other_number = other_number_clean
            THEN IF self_number_clean_int = other_number_clean_int
                 THEN IF Len(self_number_clean) # Len(other_number_clean)
                      THEN Len(self_number_clean) < Len(other_number_clean)
                      ELSE str_lt(self_side, other_side)
                 ELSE self_number_clean_int < other_number_clean_int
            ELSE IF self_number = self_number_clean
            THEN IF self_number_clean_int = other_number_clean_int
                 THEN TRUE
                 ELSE self_number_clean_int < other_number_clean_int
            ELSE IF other_number = other_number_clean
            THEN IF self_number_clean_int = other_number_clean_int
                 THEN FALSE
                 ELSE self_number_clean_int < other_number_clean_int
            ELSE IF self_number_clean = other_number_clean
            THEN IF self_side = << >> /\ other_side = << >>
                 THEN str_lt(self_number, other_number)
                 ELSE str_lt(self_side, other_side)
            ELSE IF self_number_clean_int = other_number_clean_int
            THEN IF Len(self_number_clean) # Len(other_number_clean)
                 THEN Len(self_number_clean) < Len(other_number_clean)
                 ELSE str_lt(self_side, other_side)
            ELSE self_number_clean_int < other_number_clean_int)

\* trace_rust_logic.py
trace_rust_logic(self_number, self_side_in, other_number, other_side_in) ==
    IF self_number = other_number
    THEN pybool(str_lt(or_empty(self_side_in), or_empty(other_side_in)))
    ELSE
    LET self_side == or_empty(self_side_in)
        other_side == or_empty(other_side_in)
        self_number_clean == number_clean(self_number)
        other_number_clean == number_clean(other_number)
    IN  IF int_raises(self_number_clean) \/ int_raises(other_number_clean)
        THEN "ValueError"
        ELSE
        LET self_number_clean_int == py_int(self_number_clean)
            other_number_clean_int == py_int(other_number_clean)
            self_is_digit == self_number = self_number_clean
            other_is_digit == other_number = other_number_clean
        IN  pybool(
            \* Case 1: Both are pure digits
            IF self_is_digit /\ other_is_digit
            THEN IF self_number_clean_int = other_number_clean_int
                 THEN IF Len(self_number_clean) # Len(other_number_clean)
                      THEN Len(self_number_clean) < Len(other_number_clean)
                      ELSE str_lt(self_side, other_side)
                 ELSE self_number_clean_int < other_number_clean_int
            \* Case 2: Self is pure digit, other is not
            ELSE IF self_is_digit
            THEN IF self_number_clean_int = other_number_clean_int
                 THEN TRUE
                 ELSE self_number_clean_int < other_number_clean_int
            \* Case 3: Other is pure digit, self is not
            ELSE IF other_is_digit
            THEN IF self_number_clean_int = other_number_clean_int
                 THEN FALSE
                 ELSE self_number_clean_int < other_number_clean_int
            \* Case 4: Neither is pure digit
            ELSE IF self_number_clean = other_number_clean
            THEN IF self_side = << >> /\ other_side = << >>
                 THEN str_lt(self_number, other_number)
                 ELSE str_lt(self_side, other_side)
            ELSE IF self_number_clean_int = other_number_clean_int
            THEN IF Len(self_number_clean) # Len(other_number_clean)
                 THEN Len(self_number_clean) < Len(other_number_clean)
                 ELSE str_lt(self_side, other_side)
            ELSE self_number_clean_int < other_number_clean_int)

\* test_original_python.py
test_python_lt(self_number, self_side_in, other_number, other_side_in) ==
    IF self_number = other_number
    THEN pybool(str_lt(or_empty(self_side_in), or_empty(other_side_in)))
    ELSE
    LET self_side == or_empty(self_side_in)
        other_side == or_empty(other_side_in)
        self_number_clean == number_clean(self_number)
        other_number_clean == number_clean(other_number)
    IN  IF int_raises(self_number_clean) \/ int_raises(other_number_clean)
        THEN "ValueError"
        ELSE
        LET self_number_clean_int == py_int(self_number_clean)
            other_number_clean_int == py_int(other_number_clean)
        IN  pybool(
            IF self_number = self_number_clean /\ other_number = other_number_clean
            THEN IF self_number_clean_int = other_number_clean_int
                 THEN IF Len(self_number_clean) # Len(other_number_clean)
                      THEN Len(self_number_clean) < Len(other_number_clean)
                      ELSE str_lt(self_side, other_side)
                 ELSE self_number_clean_int < other_number_clean_int
            ELSE IF self_number = self_number_clean
            THEN IF self_number_clean_int = other_number_clean_int
                 THEN TRUE
                 ELSE self_number_clean_int < other_number_clean_int
            ELSE IF other_number = other_number_clean
            THEN IF self_number_clean_int = other_number_clean_int
                 THEN FALSE
                 ELSE self_number_clean_int < other_number_clean_int
            ELSE IF self_number_clean = other_number_clean
            THEN IF self_side = << >> /\ other_side = << >>
                 THEN str_lt(self_number, other_number)
                 ELSE str_lt(self_side, other_side)
            ELSE IF self_number_clean_int = other_number_clean_int
            THEN IF Len(self_number_clean) # Len(other_number_clean)
                 THEN Len(self_number_clean) < Len(other_number_clean)
                 ELSE str_lt(self_side, other_side)
            ELSE self_number_clean_int < other_number_clean_int)

---------------------------------------------------------------------------
(* compare_card_numbers of test_hybrid_compatibility and its MockCard *)

\* self_side if self_side else ""
side_if_else_empty(side) == IF side = None THEN << >> ELSE side[1]

\* the digit characters the number starts with, up to the first other character
RECURSIVE numeric_part(_)
numeric_part(number) ==
    IF number = << >> \/ ~isdigit(number[1]) THEN << >>
    ELSE <<number[1]>> \o numeric_part(Tail(number))

\* clean_number(number): (value of the leading digits, length of the number)
clean_number(number) ==
    IF number = << >> THEN <<0, 0>>
    ELSE IF numeric_part(number) = << >> THEN <<0, Len(number)>>
    ELSE IF int_raises(numeric_part(number)) THEN <<0, Len(number)>>
    ELSE <<py_int(numeric_part(number)), Len(number)>>

\* number.isdigit() if number else False
all_digits(number) ==
    number # << >> /\ \A i \in 1..Len(number) : isdigit(number[i])

\* -1 if x < y else (1 if x > y else 0) on strings
three_way(x, y) == IF str_lt(x, y) THEN -1 ELSE IF str_lt(y, x) THEN 1 ELSE 0

compare_card_numbers(self_number, self_side_in, other_number, other_side_in) ==
    LET self_side == side_if_else_empty(self_side_in)
        other_side == side_if_else_empty(other_side_in)
    IN  IF self_number = other_number
        THEN three_way(self_side, other_side)
        ELSE
        LET self_clean == clean_number(self_number)[1]
            self_len == clean_number(self_number)[2]
            other_clean == clean_number(other_number)[1]
            other_len == clean_number(other_number)[2]
            self_all_digits == all_digits(self_number)
            other_all_digits == all_digits(other_number)
        IN  IF self_all_digits /\ other_all_digits
            THEN IF self_clean # other_clean
                 THEN IF self_clean < other_clean THEN -1 ELSE 1
                 ELSE IF self_len # other_len
                 THEN IF self_len < other_len THEN -1 ELSE 1
                 ELSE three_way(self_side, other_side)
            ELSE IF self_all_digits
            THEN IF self_clean = other_clean THEN -1
                 ELSE IF self_clean < other_clean THEN -1 ELSE 1
            ELSE IF other_all_digits
            THEN IF self_clean = other_clean THEN 1
                 ELSE IF self_clean < other_clean THEN -1 ELSE 1
            ELSE IF self_clean = other_clean
            THEN IF self_side = << >> /\ other_side = << >>
                 THEN three_way(self_number, other_number)
                 ELSE three_way(self_side, other_side)
            ELSE IF self_clean < other_clean THEN -1 ELSE 1

\* MockCard.__lt__ of test_hybrid_compatibility
hybrid_is_lt(x, y) ==
    compare_card_numbers(x.number, x.side, y.number, y.side) = -1

\* MockCard.__lt__ of test_card_number_sorting
simple_is_lt(x, y) == str_lt(x.number, y.number)

---------------------------------------------------------------------------
(* The keys *)

Key(number, side) == [number |-> number, side |-> side]

\* correct_order of test_card_sorting
correct_order == <<
    Key(<<48>>, None),                      \* ("0", None)
    Key(<<48, 48>>, None),                  \* ("00", None)
    Key(<<97, 112, 48, 97>>, None),         \* ("ap0a", None)
    Key(<<103, 110, 48, 97>>, None),        \* ("gn0a", None)
    Key(<<109, 108, 48, 98>>, None),        \* ("ml0b", None)
    Key(<<109, 108, 112, 48, 97>>, None),   \* ("mlp0a", None)
    Key(<<48, 48, 97>>, None),              \* ("00a", None)
    Key(<<49>>, None),                      \* ("1", None)
    Key(<<50>>, None),                      \* ("2", None)
    Key(<<50, 97>>, Some(<<97>>)),          \* ("2a", "a")
    Key(<<50, 98>>, Some(<<98>>)),          \* ("2b", "b")
    Key(<<51>>, None),                      \* ("3", None)
    Key(<<49, 48>>, None),                  \* ("10", None)
    Key(<<49, 48, 97>>, Some(<<97>>)),      \* ("10a", "a")
    Key(<<49, 48, 98>>, Some(<<98>>)),      \* ("10b", "b")
    Key(<<49, 49>>, None),                  \* ("11", None)
    Key(<<50, 48>>, None),                  \* ("20", None)
    Key(<< >>, None) >>                     \* ("", None)

\* the numbers of the corpus, the literal "100000" and the symbol "★"
ListedNumbers ==
    {correct_order[i].number : i \in 1..Len(correct_order)}
        \cup {Sentinel, <<9733>>}

\* every string over Alphabet of length at most n
RECURSIVE Strings(_)
Strings(n) ==
    IF n = 0 THEN {<< >>}
    ELSE Strings(n - 1)
            \cup {Append(s, ch) : s \in {t \in Strings(n - 1) : Len(t) = n - 1},
                                  ch \in Alphabet}

Numbers == Strings(MaxLen) \cup ListedNumbers

\* None, "", "a", "b"
Sides == {None, Some(<< >>), Some(<<97>>), Some(<<98>>)}

Keys == {Key(n, s) : n \in Numbers, s \in Sides}

---------------------------------------------------------------------------
(* Comparing two keys *)

Unset == "unset"

\* no call of the comparison is running
NoFrames == << >>

Init ==
    /\ pc = "start"
    /\ A \in Keys
    /\ B \in Keys
    /\ C = A
    /\ ltAB = Unset /\ ltBA = Unset /\ ltAA = Unset
    /\ ltBC = Unset /\ ltAC = Unset
    /\ copies = Unset
    /\ frames = NoFrames
    /\ test_group = << >> /\ perm_group = << >>
    /\ shuffle_i = 0 /\ swaps = 0

\* the card less-than, called in both directions and on the key itself
CallLt ==
    /\ pc = "start"
    /\ ltAB' = card_lt(A, B)
    /\ ltBA' = card_lt(B, A)
    /\ ltAA' = card_lt(A, A)
    /\ pc' = "compared"
    /\ UNCHANGED <<A, B, C, ltBC, ltAC, copies>>
    /\ UNCHANGED sort_vars
    /\ UNCHANGED frames

\* the same call made on each copy of the rule
CallCopies ==
    /\ pc = "compared"
    /\ copies' = [python_card_lt |-> python_card_lt(A.number, A.side, B.number, B.side),
                  trace_rust_logic |-> trace_rust_logic(A.number, A.side, B.number, B.side),
                  original_card_lt |-> original_card_lt(A.number, A.side, B.number, B.side),
                  test_python_lt |-> test_python_lt(A.number, A.side, B.number, B.side),
                  compare_card_numbers |->
                      compare_card_numbers(A.number, A.side, B.number, B.side)]
    /\ pc' = "done"
    /\ UNCHANGED <<A, B, C, ltAB, ltBA, ltAA, ltBC, ltAC>>
    /\ UNCHANGED sort_vars
    /\ UNCHANGED frames

Next == CallLt \/ CallCopies

Spec == Init /\ [][Next]_vars

---------------------------------------------------------------------------
(* Comparing three keys *)

\* '0', '1' and 'a'
TripleAlphabet == {48, 49, 97}

RECURSIVE TripleStrings(_)
TripleStrings(n) ==
    IF n = 0 THEN {<< >>}
    ELSE TripleStrings(n - 1)
            \cup {Append(s, ch) : s \in {t \in TripleStrings(n - 1) : Len(t) = n - 1},
                                  ch \in TripleAlphabet}

\* None, "a", "b"
TripleSides == {None, Some(<<97>>), Some(<<98>>)}

\* the generated numbers, the literal "100000" and "a100000", whose digit
\* run is the one substituted for a digit-less number
TripleNumbers ==
    TripleStrings(MaxLenTriple) \cup {Sentinel, <<97>> \o Sentinel}

TripleKeys == {Key(n, s) : n \in TripleNumbers, s \in TripleSides}

InitTriple ==
    /\ pc = "start"
    /\ A \in TripleKeys
    /\ B \in TripleKeys
    /\ C \in TripleKeys
    /\ ltAB = Unset /\ ltBA = Unset /\ ltAA = Unset
    /\ ltBC = Unset /\ ltAC = Unset
    /\ copies = Unset
    /\ frames = NoFrames
    /\ test_group = << >> /\ perm_group = << >>
    /\ shuffle_i = 0 /\ swaps = 0

\* the card less-than on the three pairs of a chain A, B, C
CallLtChain ==
    /\ pc = "start"
    /\ ltAB' = card_lt(A, B)
    /\ ltBC' = card_lt(B, C)
    /\ ltAC' = card_lt(A, C)
    /\ pc' = "compared"
    /\ UNCHANGED <<A, B, C, ltBA, ltAA, copies>>
    /\ UNCHANGED sort_vars
    /\ UNCHANGED frames

NextTriple == CallLtChain

SpecTriple == InitTriple /\ [][NextTriple]_vars

---------------------------------------------------------------------------
(* list.sort() with the card less-than: for fewer than 64 elements CPython *)
(* finds the run the list starts with, reverses it if it is descending,    *)
(* and inserts the remaining elements by binary insertion.                 *)

card_is_lt(x, y) == card_lt(x, y) = "True"

\* x < y as the cards of the list being sorted define it: "card" is the
\* card's __lt__, the other kinds are the __lt__ of the two MockCard classes
item_is_lt(kind, x, y) ==
    CASE kind = "card" -> card_is_lt(x, y)
      [] kind = "hybrid" -> hybrid_is_lt(x, y)
      [] kind = "simple" -> simple_is_lt(x, y)

reverse_slice(s) == [i \in 1..Len(s) |-> s[Len(s) + 1 - i]]

\* length of the run the list starts with, n elements of it known
RECURSIVE count_run(_, _, _, _)
count_run(kind, a, n, descending) ==
    IF n = Len(a) THEN n
    ELSE IF item_is_lt(kind, a[n + 1], a[n]) = descending
         THEN count_run(kind, a, n + 1, descending)
         ELSE n

\* where pivot goes among the sorted a[l+1..r] (l and r count from 0)
RECURSIVE bisect(_, _, _, _, _)
bisect(kind, a, pivot, l, r) ==
    IF l >= r THEN l
    ELSE LET p == l + ((r - l) \div 2)
         IN  IF item_is_lt(kind, pivot, a[p + 1])
             THEN bisect(kind, a, pivot, l, p)
             ELSE bisect(kind, a, pivot, p + 1, r)

\* the first start elements are sorted; insert the others one by one
RECURSIVE binarysort(_, _, _)
binarysort(kind, a, start) ==
    IF start >= Len(a) THEN a
    ELSE LET pivot == a[start + 1]
             l == bisect(kind, a, pivot, 0, start)
         IN  binarysort(kind,
                        SubSeq(a, 1, l) \o <<pivot>> \o SubSeq(a, l + 1, start)
                            \o SubSeq(a, start + 2, Len(a)),
                        start + 1)

list_sort(kind, a) ==
    IF Len(a) < 2 THEN a
    ELSE LET descending == item_is_lt(kind, a[2], a[1])
             n == count_run(kind, a, 2, descending)
             run == IF descending
                    THEN reverse_slice(SubSeq(a, 1, n)) \o SubSeq(a, n + 1, Len(a))
                    ELSE a
         IN  binarysort(kind, run, n)

---------------------------------------------------------------------------
(* test_card_sorting: shuffle the corpus, sort it, compare with correct_order *)

swap(list, i, j) == [list EXCEPT ![i] = list[j], ![j] = list[i]]

InitSort ==
    /\ pc = "shuffle"
    /\ test_group = correct_order
    /\ shuffle_i = Len(correct_order)
    /\ swaps = 0
    /\ perm_group = << >>
    /\ A = correct_order[1] /\ B = correct_order[1] /\ C = correct_order[1]
    /\ ltAB = Unset /\ ltBA = Unset /\ ltAA = Unset
    /\ ltBC = Unset /\ ltAC = Unset
    /\ copies = Unset
    /\ frames = NoFrames

\* one draw of random.shuffle: x[i], x[j] = x[j], x[i] with j in 0..i
ShuffleStep ==
    /\ pc = "shuffle"
    /\ shuffle_i >= 2
    /\ \E j \in 1..shuffle_i :
        /\ j # shuffle_i => swaps < MaxSwaps
        /\ test_group' = swap(test_group, shuffle_i, j)
        /\ swaps' = IF j # shuffle_i THEN swaps + 1 ELSE swaps
    /\ shuffle_i' = shuffle_i - 1
    /\ UNCHANGED <<pc, perm_group>>
    /\ UNCHANGED lt_vars
    /\ UNCHANGED frames

\* test_group.sort()
SortGroup ==
    /\ pc = "shuffle"
    /\ shuffle_i = 1
    /\ test_group' = list_sort("card", test_group)
    /\ pc' = "sorted"
    /\ UNCHANGED <<shuffle_i, swaps, perm_group>>
    /\ UNCHANGED lt_vars
    /\ UNCHANGED frames

\* assert correct_order == test_group_order, then the next round
AssertOrder ==
    /\ pc = "sorted"
    /\ IF test_group = correct_order
       THEN /\ pc' = "shuffle"
            /\ shuffle_i' = Len(test_group)
            /\ swaps' = 0
       ELSE /\ pc' = "AssertionError"
            /\ UNCHANGED <<shuffle_i, swaps>>
    /\ UNCHANGED <<test_group, perm_group>>
    /\ UNCHANGED lt_vars
    /\ UNCHANGED frames

NextSort == ShuffleStep \/ SortGroup \/ AssertOrder

SpecSort == InitSort /\ [][NextSort]_vars

---------------------------------------------------------------------------
(* test_card_sorting_compatibility: the same corpus as MockCards ordered by *)
(* compare_card_numbers                                                     *)

\* test_cards.sort()
SortHybrid ==
    /\ pc = "shuffle"
    /\ shuffle_i = 1
    /\ test_group' = list_sort("hybrid", test_group)
    /\ pc' = "sorted"
    /\ UNCHANGED <<shuffle_i, swaps, perm_group>>
    /\ UNCHANGED lt_vars
    /\ UNCHANGED frames

\* if result_order != correct_order: return False; otherwise the next round
\* (the rounds are not counted: each starts from the list the last one left)
CheckOrder ==
    /\ pc = "sorted"
    /\ IF test_group # correct_order
       THEN /\ pc' = "return False"
            /\ UNCHANGED <<shuffle_i, swaps>>
       ELSE /\ pc' = "shuffle"
            /\ shuffle_i' = Len(test_group)
            /\ swaps' = 0
    /\ UNCHANGED <<test_group, perm_group>>
    /\ UNCHANGED lt_vars
    /\ UNCHANGED frames

NextSortHybrid == ShuffleStep \/ SortHybrid \/ CheckOrder

SpecSortHybrid == InitSort /\ [][NextSortHybrid]_vars

---------------------------------------------------------------------------
(* test_specific_comparison: "00a" against "ap0a", then sorted() of seven   *)
(* side-less cards                                                          *)

\* every order the elements of a set can be listed in
RECURSIVE Arrangements(_)
Arrangements(S) ==
    IF S = {} THEN {<< >>}
    ELSE UNION {{<<x>> \o s : s \in Arrangements(S \ {x})} : x \in S}

\* test_numbers = ["00", "00a", "ap0a", "gn0a", "ml0b", "mlp0a", "1"]
test_numbers == <<
    Key(<<48, 48>>, None),
    Key(<<48, 48, 97>>, None),
    Key(<<97, 112, 48, 97>>, None),
    Key(<<103, 110, 48, 97>>, None),
    Key(<<109, 108, 48, 98>>, None),
    Key(<<109, 108, 112, 48, 97>>, None),
    Key(<<49>>, None) >>

\* card1 is "00a", card2 is "ap0a"; the seven cards are taken in every
\* order, test_numbers being the order the script lists them in
InitSpecific ==
    /\ pc = "start"
    /\ A = Key(<<48, 48, 97>>, None)
    /\ B = Key(<<97, 112, 48, 97>>, None)
    /\ C = A
    /\ ltAB = Unset /\ ltBA = Unset /\ ltAA = Unset
    /\ ltBC = Unset /\ ltAC = Unset
    /\ copies = Unset
    /\ frames = NoFrames
    /\ perm_group \in Arrangements({test_numbers[i] : i \in 1..Len(test_numbers)})
    /\ test_group = perm_group
    /\ shuffle_i = 0 /\ swaps = 0

\* card1 < card2 and card2 < card1
CompareSpecific ==
    /\ pc = "start"
    /\ ltAB' = card_lt(A, B)
    /\ ltBA' = card_lt(B, A)
    /\ pc' = "compared"
    /\ UNCHANGED <<A, B, C, ltAA, ltBC, ltAC, copies>>
    /\ UNCHANGED sort_vars
    /\ UNCHANGED frames

\* sorted(cards_test, key=lambda x: x[1])
SortSpecific ==
    /\ pc = "compared"
    /\ test_group' = list_sort("card", test_group)
    /\ pc' = "sorted"
    /\ UNCHANGED <<shuffle_i, swaps, perm_group>>
    /\ UNCHANGED lt_vars
    /\ UNCHANGED frames

NextSpecific == CompareSpecific \/ SortSpecific

SpecSpecific == InitSpecific /\ [][NextSpecific]_vars

---------------------------------------------------------------------------
(* test_card_number_sorting: eight pure-digit MockCards ordered by the     *)
(* plain comparison of their number strings                                *)

\* correct_order of test_card_number_sorting
simple_order == <<
    Key(<<48>>, None),          \* ("0", None)
    Key(<<48, 48>>, None),      \* ("00", None)
    Key(<<49>>, None),          \* ("1", None)
    Key(<<50>>, None),          \* ("2", None)
    Key(<<51>>, None),          \* ("3", None)
    Key(<<49, 48>>, None),      \* ("10", None)
    Key(<<49, 49>>, None),      \* ("11", None)
    Key(<<50, 48>>, None) >>    \* ("20", None)

\* expected_simple lists the same keys as correct_order
expected_simple == simple_order

\* the cards are taken in every order, simple_order being the order the
\* test builds them in; perm_group keeps the list as built
InitSimple ==
    /\ pc = "built"
    /\ perm_group \in Arrangements({simple_order[i] : i \in 1..Len(simple_order)})
    /\ test_group = perm_group
    /\ shuffle_i = 0 /\ swaps = 0
    /\ A = correct_order[1] /\ B = correct_order[1] /\ C = correct_order[1]
    /\ ltAB = Unset /\ ltBA = Unset /\ ltAA = Unset
    /\ ltBC = Unset /\ ltAC = Unset
    /\ copies = Unset
    /\ frames = NoFrames

\* test_group.reverse()
ReverseSimple ==
    /\ pc = "built"
    /\ test_group' = reverse_slice(test_group)
    /\ pc' = "reversed"
    /\ UNCHANGED <<shuffle_i, swaps, perm_group>>
    /\ UNCHANGED lt_vars
    /\ UNCHANGED frames

\* test_group.sort()
SortSimple ==
    /\ pc = "reversed"
    /\ test_group' = list_sort("simple", test_group)
    /\ pc' = "sorted"
    /\ UNCHANGED <<shuffle_i, swaps, perm_group>>
    /\ UNCHANGED lt_vars
    /\ UNCHANGED frames

\* return result_order == expected_simple
ReturnSimple ==
    /\ pc = "sorted"
    /\ pc' = IF test_group = expected_simple THEN "return True" ELSE "return False"
    /\ UNCHANGED sort_vars
    /\ UNCHANGED lt_vars
    /\ UNCHANGED frames

NextSimple == ReverseSimple \/ SortSimple \/ ReturnSimple

SpecSimple == InitSimple /\ [][NextSimple]_vars

---------------------------------------------------------------------------
(* Sorting a catalog of distinct keys given in two input orders *)

\* every list of exactly n pairwise distinct keys
RECURSIVE CatalogsOfLen(_)
CatalogsOfLen(n) ==
    IF n = 0 THEN {<< >>}
    ELSE {Append(s, k) : s \in CatalogsOfLen(n - 1), k \in TripleKeys}

Distinct(s) == \A i, j \in 1..Len(s) : i # j => s[i] # s[j]

Catalogs == UNION {{s \in CatalogsOfLen(n) : Distinct(s)} : n \in 0..MaxCatalog}

\* the orders a list of n elements can be given in
Orders(n) == {f \in [1..n -> 1..n] : \A i, j \in 1..n : i # j => f[i] # f[j]}

InitCatalog ==
    /\ pc = "catalog"
    /\ test_group \in Catalogs
    /\ \E f \in Orders(Len(test_group)) :
            perm_group = [i \in 1..Len(test_group) |-> test_group[f[i]]]
    /\ shuffle_i = 0 /\ swaps = 0
    /\ A = correct_order[1] /\ B = correct_order[1] /\ C = correct_order[1]
    /\ ltAB = Unset /\ ltBA = Unset /\ ltAA = Unset
    /\ ltBC = Unset /\ ltAC = Unset
    /\ copies = Unset
    /\ frames = NoFrames

\* sorted(...) of the catalog in each of the two input orders
SortCatalog ==
    /\ pc = "catalog"
    /\ test_group' = list_sort("card", test_group)
    /\ perm_group' = list_sort("card", perm_group)
    /\ pc' = "sorted"
    /\ UNCHANGED <<shuffle_i, swaps>>
    /\ UNCHANGED lt_vars
    /\ UNCHANGED frames

NextCatalog == SortCatalog

SpecCatalog == InitCatalog /\ [][NextCatalog]_vars

---------------------------------------------------------------------------
(* Several processes calling original_card_lt on the same two keys *)

Procs == 1..NProcs

\* the numbers of the script's test cases, the empty number and a number
\* int() rejects, each without a side and with side "a"
ConcKeys ==
    {Key(n, s) : n \in {<<48, 48, 97>>, <<97, 112, 48, 97>>, <<48, 48>>,
                        <<49>>, << >>, <<178>>},
                 s \in {None, Some(<<97>>)}}

\* the frame of a call that has not started
IdleFrame ==
    [pc |-> "idle", args |-> << >>,
     self_number |-> << >>, other_number |-> << >>,
     self_side |-> << >>, other_side |-> << >>,
     self_number_clean |-> << >>, other_number_clean |-> << >>,
     self_number_clean_int |-> 0, other_number_clean_int |-> 0,
     result |-> Unset, interleaved |-> FALSE]

\* one frame for all the calls
locals_of_first(fs, p) == fs[1]

\* the local variables of the call process p is running
locals_of(fs, p) == fs[p]

\* another process is inside a call
others_running(p) ==
    \E q \in Procs \ {p} : frames[q].pc \notin {"idle", "returned"}

\* lines 16-49 on the local variables of a frame
lt_from_locals(f) ==
    LET self_is_digit == f.self_number = f.self_number_clean
        other_is_digit == f.other_number = f.other_number_clean
    IN  pybool(
        IF self_is_digit /\ other_is_digit
        THEN lt_both_digit(f.self_number_clean, f.other_number_clean,
                           f.self_number_clean_int, f.other_number_clean_int,
                           f.self_side, f.other_side)
        ELSE IF self_is_digit
        THEN lt_self_digit(f.self_number_clean_int, f.other_number_clean_int)
        ELSE IF other_is_digit
        THEN lt_other_digit(f.self_number_clean_int, f.other_number_clean_int)
        ELSE IF f.self_number_clean = f.other_number_clean
        THEN lt_same_clean(f.self_number, f.other_number, f.self_side, f.other_side)
        ELSE lt_neither_digit(f.self_number_clean, f.other_number_clean,
                              f.self_number_clean_int, f.other_number_clean_int,
                              f.self_side, f.other_side))

InitConc ==
    /\ pc = "start"
    /\ A \in ConcKeys
    /\ B \in ConcKeys
    /\ C = A
    /\ ltAB = Unset /\ ltBA = Unset /\ ltAA = Unset
    /\ ltBC = Unset /\ ltAC = Unset
    /\ copies = Unset
    /\ test_group = << >> /\ perm_group = << >>
    /\ shuffle_i = 0 /\ swaps = 0
    /\ frames = [p \in Procs |-> IdleFrame]

\* lines 1-7: the call binds its arguments, returns on equal numbers and
\* rebinds the sides otherwise
Enter(p) ==
    /\ frames[p].pc = "idle"
    /\ \E call \in {<<A, B>>, <<B, A>>} :
        LET x == call[1]
            y == call[2]
            f == [frames[p] EXCEPT !.args = call,
                                   !.self_number = x.number,
                                   !.other_number = y.number,
                                   !.interleaved = others_running(p)]
        IN  frames' = [frames EXCEPT ![p] =
                IF x.number = y.number
                THEN [f EXCEPT !.pc = "returned",
                               !.result = pybool(str_lt(or_empty(x.side),
                                                        or_empty(y.side)))]
                ELSE [f EXCEPT !.pc = "entered",
                               !.self_side = or_empty(x.side),
                               !.other_side = or_empty(y.side)]]
    /\ UNCHANGED pc
    /\ UNCHANGED lt_vars
    /\ UNCHANGED sort_vars

\* lines 9-10
CleanSelf(p) ==
    /\ frames[p].pc = "entered"
    /\ LET clean == number_clean(locals_of(frames, p).self_number)
           f == [frames[p] EXCEPT !.self_number_clean = clean,
                                  !.interleaved = @ \/ others_running(p)]
       IN  frames' = [frames EXCEPT ![p] =
                IF int_raises(clean)
                THEN [f EXCEPT !.pc = "returned", !.result = "ValueError"]
                ELSE [f EXCEPT !.pc = "self cleaned",
                               !.self_number_clean_int = py_int(clean)]]
    /\ UNCHANGED pc
    /\ UNCHANGED lt_vars
    /\ UNCHANGED sort_vars

\* lines 12-13
CleanOther(p) ==
    /\ frames[p].pc = "self cleaned"
    /\ LET clean == number_clean(locals_of(frames, p).other_number)
           f == [frames[p] EXCEPT !.other_number_clean = clean,
                                  !.interleaved = @ \/ others_running(p)]
       IN  frames' = [frames EXCEPT ![p] =
                IF int_raises(clean)
                THEN [f EXCEPT !.pc = "returned", !.result = "ValueError"]
                ELSE [f EXCEPT !.pc = "other cleaned",
                               !.other_number_clean_int = py_int(clean)]]
    /\ UNCHANGED pc
    /\ UNCHANGED lt_vars
    /\ UNCHANGED sort_vars

\* lines 16-49
Decide(p) ==
    /\ frames[p].pc = "other cleaned"
    /\ frames' = [frames EXCEPT ![p] =
            [@ EXCEPT !.pc = "returned",
                      !.result = lt_from_locals(locals_of(frames, p)),
                      !.interleaved = @ \/ others_running(p)]]
    /\ UNCHANGED pc
    /\ UNCHANGED lt_vars
    /\ UNCHANGED sort_vars

NextConc ==
    \E p \in Procs : Enter(p) \/ CleanSelf(p) \/ CleanOther(p) \/ Decide(p)

SpecConc == InitConc /\ [][NextConc]_vars

---------------------------------------------------------------------------
(* test_original_python.py: the manual sort of a list of numbers *)

\* the numbers the manual sort is run on: "00", "00a", "ap0a", "1", "0",
\* "", "a" and a number int() rejects
ManualNumbers ==
    {<<48, 48>>, <<48, 48, 97>>, <<97, 112, 48, 97>>, <<49>>, <<48>>,
     << >>, <<97>>, <<178>>}

\* the lists of at most n cards without a side
RECURSIVE ManualLists(_)
ManualLists(n) ==
    IF n = 0 THEN {<< >>}
    ELSE ManualLists(n - 1)
            \cup {Append(l, Key(x, None)) :
                    l \in {m \in ManualLists(n - 1) : Len(m) = n - 1},
                    x \in ManualNumbers}

\* the list and whether a comparison has raised
ManualState(list, raised) == [list |-> list, raised |-> raised]

\* for j in range(i + 1, len(test_numbers)): swap when not lt(list[i], list[j])
RECURSIVE manual_inner(_, _, _)
manual_inner(a, i, j) ==
    IF j > Len(a) THEN ManualState(a, FALSE)
    ELSE
    LET lt == test_python_lt(a[i].number, None, a[j].number, None)
    IN  IF lt = "ValueError" THEN ManualState(a, TRUE)
        ELSE IF lt = "False" THEN manual_inner(swap(a, i, j), i, j + 1)
        ELSE manual_inner(a, i, j + 1)

\* for i in range(len(test_numbers))
RECURSIVE manual_outer(_, _)
manual_outer(a, i) ==
    IF i > Len(a) THEN ManualState(a, FALSE)
    ELSE
    LET inner == manual_inner(a, i, i + 1)
    IN  IF inner.raised THEN inner ELSE manual_outer(inner.list, i + 1)

manual_sort(a) == manual_outer(a, 1)

\* the list of the script, or any list of at most MaxList numbers
InitManual ==
    /\ pc = "listed"
    /\ perm_group \in ManualLists(MaxList) \cup {test_numbers}
    /\ test_group = perm_group
    /\ shuffle_i = 0 /\ swaps = 0
    /\ A = correct_order[1] /\ B = correct_order[1] /\ C = correct_order[1]
    /\ ltAB = Unset /\ ltBA = Unset /\ ltAA = Unset
    /\ ltBC = Unset /\ ltAC = Unset
    /\ copies = Unset
    /\ frames = NoFrames

\* the two loops, to their end or to the comparison that raises
ManualSort ==
    /\ pc = "listed"
    /\ LET done == manual_sort(test_group)
       IN  /\ test_group' = done.list
           /\ pc' = IF done.raised THEN "ValueError" ELSE "manually sorted"
    /\ UNCHANGED <<shuffle_i, swaps, perm_group>>
    /\ UNCHANGED lt_vars
    /\ UNCHANGED frames

NextManual == ManualSort

SpecManual == InitManual /\ [][NextManual]_vars

---------------------------------------------------------------------------
(* Vocabulary of the properties *)

\* compare as the contract defines it from the less-than function
compare(lt_xy, lt_yx) ==
    IF lt_xy = "ValueError" THEN "ValueError"
    ELSE IF lt_xy = "True" THEN "Less"
    ELSE IF lt_yx = "ValueError" THEN "ValueError"
    ELSE IF lt_yx = "True" THEN "Greater"
    ELSE "Equal"

is_pure_digits(number) == number = number_clean(number)

has_no_digit(number) == join_isdigit(number) = << >>

\* normalized_side: the side, or the empty text when it is absent
normalized_side(side) == IF Len(side) = 0 THEN << >> ELSE side[1]

\* ordinary lexicographic order of two texts, stated without recursion
lex_less(s, t) ==
    \E k \in 0..Len(s) :
        /\ k <= Len(t)
        /\ \A i \in 1..k : s[i] = t[i]
        /\ \/ k = Len(s) /\ k < Len(t)
           \/ k < Len(s) /\ k < Len(t) /\ s[k + 1] < t[k + 1]

\* digit_value is defined: int() accepts every digit character of the number
decimal_digits(number) ==
    \A i \in 1..Len(number) : isdigit(number[i]) => isdecimal(number[i])

\* digit_value: the digit run read as an integer, 100000 without a digit
digit_value(number) ==
    IF has_no_digit(number) THEN 100000 ELSE py_int(join_isdigit(number))

\* a non-empty number of decimal digits only
pure_decimal(number) ==
    number # << >> /\ \A i \in 1..Len(number) : isdecimal(number[i])

\* Less, Equal or Greater by the lexicographic order of two texts
lex_compare(s, t) ==
    IF s = t THEN "Equal" ELSE IF lex_less(s, t) THEN "Less" ELSE "Greater"

\* the lengths of two digit runs compared first, the contents, digit by
\* digit, only when the lengths are equal
length_first_compare(s, t) ==
    IF Len(s) < Len(t) THEN "Less"
    ELSE IF Len(s) > Len(t) THEN "Greater"
    ELSE lex_compare(s, t)

\* a digit run without its leading zeros
strip_zeros(s) ==
    LET zeros == {k \in 0..Len(s) : \A i \in 1..k : s[i] = 48}
        n == CHOOSE k \in zeros : \A m \in zeros : m <= k
    IN  SubSeq(s, n + 1, Len(s))

\* two lists hold the same cards, each as many times
same_cards(s, t) ==
    /\ Len(s) = Len(t)
    /\ \A i \in 1..Len(s) :
            Cardinality({k \in 1..Len(s) : s[k] = s[i]})
                = Cardinality({k \in 1..Len(t) : t[k] = s[i]})

\* the key with its absent side made empty, or its empty side made absent
other_empty_side(k) ==
    IF k.side = None THEN Key(k.number, Some(<< >>)) ELSE Key(k.number, None)

\* the positions of the digit characters of a number
digit_positions(number) == {i \in 1..Len(number) : isdigit(number[i])}

\* run holds the digit characters of number, all of them, in their order
is_digits_in_order(run, number) ==
    /\ Len(run) = Cardinality(digit_positions(number))
    /\ \A i \in digit_positions(number) :
            run[Cardinality({j \in digit_positions(number) : j <= i})] = number[i]

InList(k, list) == \E i \in 1..Len(list) : list[i] = k

---------------------------------------------------------------------------
(* Properties *)

\* C1: two keys equal in number and side compare Equal, and two keys that
\* differ in number or in side compare Less or Greater, never Equal.  Read
\* in the comparator's favour: an absent side counts as the empty side, and
\* only calls that return are judged.
C1_StrictTotalOrder ==
    (pc = "compared" /\ ltAB \in {"True", "False"} /\ ltBA \in {"True", "False"}) =>
        IF A.number = B.number /\ or_empty(A.side) = or_empty(B.side)
        THEN compare(ltAB, ltBA) = "Equal"
        ELSE compare(ltAB, ltBA) \in {"Less", "Greater"}

\* C2: transitivity: if A is less than B and B is less than C then A is
\* less than C.
C2_Transitive ==
    (pc = "compared" /\ ltAB = "True" /\ ltBC = "True") => ltAC = "True"

\* a chain pure-digit < mixed < digit-less, with and without sides
C2_Witness ==
    /\ pc = "compared" /\ ltAB = "True" /\ ltBC = "True" /\ ltAC = "True"
    /\ is_pure_digits(A.number)
    /\ ~is_pure_digits(B.number) /\ ~has_no_digit(B.number)
    /\ has_no_digit(C.number)
    /\ A.side = None /\ B.side # None

\* C3: antisymmetry: for A # B, compare(A, B) = Less iff compare(B, A) =
\* Greater, and the less-than never holds in both directions.
C3_Antisymmetric ==
    (pc = "compared" /\ A # B) =>
        /\ (compare(ltAB, ltBA) = "Less") <=> (compare(ltBA, ltAB) = "Greater")
        /\ ~(ltAB = "True" /\ ltBA = "True")

\* only A is pure-digit and both have the same digit value
C3_Witness ==
    /\ pc = "compared" /\ ltAB = "True" /\ ltBA = "False"
    /\ is_pure_digits(A.number) /\ ~is_pure_digits(B.number)
    /\ py_int(number_clean(A.number)) = py_int(number_clean(B.number))

\* C4: reflexivity: compare(A, A) = Equal, i.e. lt(A, A) is False.
C4_Reflexive ==
    pc = "compared" => (ltAA = "False" /\ compare(ltAA, ltAA) = "Equal")

C4_Witness ==
    /\ pc = "compared" /\ ltAA = "False"
    /\ A.side = Some(<<97>>) /\ has_no_digit(A.number) /\ A.number # << >>

\* the 18 keys of the reference ordering
reference_order == <<
    Key(<<48>>, None),                      \* ("0", None)
    Key(<<48, 48>>, None),                  \* ("00", None)
    Key(<<97, 112, 48, 97>>, None),         \* ("ap0a", None)
    Key(<<103, 110, 48, 97>>, None),        \* ("gn0a", None)
    Key(<<109, 108, 48, 98>>, None),        \* ("ml0b", None)
    Key(<<109, 108, 112, 48, 97>>, None),   \* ("mlp0a", None)
    Key(<<48, 48, 97>>, None),              \* ("00a", None)
    Key(<<49>>, None),                      \* ("1", None)
    Key(<<50>>, None),                      \* ("2", None)
    Key(<<50>>, Some(<<97>>)),              \* ("2", "a")
    Key(<<50>>, Some(<<98>>)),              \* ("2", "b")
    Key(<<51>>, None),                      \* ("3", None)
    Key(<<49, 48>>, None),                  \* ("10", None)
    Key(<<49, 48>>, Some(<<97>>)),          \* ("10", "a")
    Key(<<49, 48>>, Some(<<98>>)),          \* ("10", "b")
    Key(<<49, 49>>, None),                  \* ("11", None)
    Key(<<50, 48>>, None),                  \* ("20", None)
    Key(<< >>, None) >>                     \* ("", None)

\* C5: in the reference ordering every key compares Less than every key
\* listed after it.
C5_ReferenceOrdering ==
    pc = "compared" =>
        \A i, j \in 1..Len(reference_order) :
            (i < j /\ A = reference_order[i] /\ B = reference_order[j]) =>
                compare(ltAB, ltBA) = "Less" /\ compare(ltBA, ltAB) = "Greater"

\* ("mlp0a", None) against ("00a", None)
C5_Witness ==
    /\ pc = "compared"
    /\ A = reference_order[6] /\ B = reference_order[7]
    /\ ltAB = "True" /\ ltBA = "False"

\* C7: no two distinct keys of the test corpus compare Equal.
C7_NoTiesInCorpus ==
    (pc = "compared" /\ InList(A, correct_order) /\ InList(B, correct_order)
        /\ A # B) =>
        compare(ltAB, ltBA) \in {"Less", "Greater"}

\* ("ap0a", None) against ("0", None)
C7_Witness ==
    /\ pc = "compared"
    /\ A = correct_order[3] /\ B = correct_order[1]
    /\ compare(ltAB, ltBA) = "Greater"

\* C6: whatever permutation of the 18 cards the shuffle leaves, the sort
\* ends with the list correct_order.
C6_SortGivesCorrectOrder ==
    pc = "sorted" => test_group = correct_order

\* a shuffle that moved cards has been sorted back
C6_Witness ==
    pc = "sorted" /\ swaps >= 1 /\ test_group = correct_order

\* C8: a catalog of pairwise distinct keys sorts to the same sequence from
\* every input order.
C8_SortIgnoresInputOrder ==
    pc = "sorted" => test_group = perm_group

\* C9: the four copies of the rule end the same way on every input.
C9_CopiesAgree ==
    pc = "done" =>
        /\ copies.python_card_lt = copies.original_card_lt
        /\ copies.trace_rust_logic = copies.original_card_lt
        /\ copies.test_python_lt = copies.original_card_lt

\* the copies agree where only the second number is pure-digit and the
\* digit values are equal
C9_Witness ==
    /\ pc = "done"
    /\ copies.python_card_lt = "False" /\ copies.trace_rust_logic = "False"
    /\ copies.original_card_lt = "False" /\ copies.test_python_lt = "False"
    /\ ~is_pure_digits(A.number) /\ is_pure_digits(B.number)
    /\ py_int(number_clean(A.number)) = py_int(number_clean(B.number))

\* C10: totality: the comparison returns a result for every pair of keys.
C10_Total ==
    pc = "compared" => (ltAB \in {"True", "False"} /\ ltBA \in {"True", "False"})

\* C11: two keys with the same number compare as their normalized sides
\* compare as strings: the empty side first, ("2", "a") before ("2", "b").
C11_SameNumberBySide ==
    (pc = "compared" /\ A.number = B.number) =>
        compare(ltAB, ltBA) =
            IF normalized_side(A.side) = normalized_side(B.side) THEN "Equal"
            ELSE IF lex_less(normalized_side(A.side), normalized_side(B.side))
                 THEN "Less" ELSE "Greater"

\* ("2", "a") against ("2", "b")
C11_Witness ==
    /\ pc = "compared"
    /\ A = Key(<<50>>, Some(<<97>>)) /\ B = Key(<<50>>, Some(<<98>>))
    /\ compare(ltAB, ltBA) = "Less"

\* C12: when exactly one of two numbers is pure-digit and the digit values
\* are equal, the pure-digit key is Less and the other one Greater,
\* whatever the sides and the lengths of the digit runs.
C12_PureDigitFirst ==
    (pc = "compared" /\ decimal_digits(A.number) /\ decimal_digits(B.number)
        /\ pure_decimal(A.number) /\ ~pure_decimal(B.number)
        /\ digit_value(A.number) = digit_value(B.number)) =>
        /\ compare(ltAB, ltBA) = "Less"
        /\ compare(ltBA, ltAB) = "Greater"

\* ("00", "b") against ("ap0a", "a"): the longer digit run and the greater
\* side on the pure-digit key
C12_Witness ==
    /\ pc = "compared"
    /\ A = Key(<<48, 48>>, Some(<<98>>))
    /\ B = Key(<<97, 112, 48, 97>>, Some(<<97>>))
    /\ ltAB = "True" /\ ltBA = "False"

\* C13: of two different numbers the one with the smaller digit value is
\* Less, whatever the sides and the kinds of the numbers.
C13_MagnitudeFirst ==
    (pc = "compared" /\ A.number # B.number
        /\ decimal_digits(A.number) /\ decimal_digits(B.number)
        /\ digit_value(A.number) < digit_value(B.number)) =>
        /\ compare(ltAB, ltBA) = "Less"
        /\ compare(ltBA, ltAB) = "Greater"

\* ("2", None) against ("10", None): "10" is the smaller string
C13_Witness ==
    /\ pc = "compared"
    /\ A = Key(<<50>>, None) /\ B = Key(<<49, 48>>, None)
    /\ lex_less(B.number, A.number)
    /\ compare(ltBA, ltAB) = "Greater"

\* C15: a key whose number has no digit compares Greater than every key
\* whose digit value is below 100000, whatever the sides.
C15_DigitlessAfterNumbers ==
    (pc = "compared" /\ has_no_digit(A.number)
        /\ ~has_no_digit(B.number) /\ decimal_digits(B.number)
        /\ digit_value(B.number) < 100000) =>
        /\ compare(ltAB, ltBA) = "Greater"
        /\ compare(ltBA, ltAB) = "Less"

\* ("", None) against ("20", None)
C15_Witness ==
    /\ pc = "compared"
    /\ A = Key(<< >>, None) /\ B = Key(<<50, 48>>, None)
    /\ compare(ltAB, ltBA) = "Greater"

\* C20: of two different pure-digit numbers with the same digit value the
\* shorter one is Less, whatever the sides.
C20_ShorterPaddingFirst ==
    (pc = "compared" /\ pure_decimal(A.number) /\ pure_decimal(B.number)
        /\ A.number # B.number
        /\ digit_value(A.number) = digit_value(B.number)
        /\ Len(A.number) < Len(B.number)) =>
        /\ compare(ltAB, ltBA) = "Less"
        /\ compare(ltBA, ltAB) = "Greater"

\* ("0", "b") against ("00", "a")
C20_Witness ==
    /\ pc = "compared"
    /\ A = Key(<<48>>, Some(<<98>>)) /\ B = Key(<<48, 48>>, Some(<<97>>))
    /\ ltAB = "True" /\ ltBA = "False"

\* C16: compare_card_numbers returns -1 exactly when original_card_lt is
\* True, and 1 exactly when it is True with the arguments swapped.  Only
\* the calls original_card_lt returns from are judged.
C16_HybridMatchesOriginal ==
    (pc = "done" /\ ltAB \in {"True", "False"} /\ ltBA \in {"True", "False"}) =>
        /\ (copies.compare_card_numbers = -1) <=> (copies.original_card_lt = "True")
        /\ (copies.compare_card_numbers = 1) <=> (ltBA = "True")

\* the order "00", "ap0a", "gn0a", "ml0b", "mlp0a", "00a", "1"
expected_specific == <<
    test_numbers[1], test_numbers[3], test_numbers[4], test_numbers[5],
    test_numbers[6], test_numbers[2], test_numbers[7] >>

\* C14: "00a" < "ap0a" is False and "ap0a" < "00a" is True, and the seven
\* cards sort to "00", "ap0a", "gn0a", "ml0b", "mlp0a", "00a", "1".
C14_SpecificComparison ==
    /\ pc \in {"compared", "sorted"} =>
            /\ ltAB = "False" /\ ltBA = "True"
            /\ compare(ltAB, ltBA) = "Greater" /\ compare(ltBA, ltAB) = "Less"
    /\ pc = "sorted" => test_group = expected_specific

\* the list in the order the script gives it, sorted
C14_Witness ==
    /\ pc = "sorted" /\ perm_group = test_numbers
    /\ test_group = expected_specific
    /\ ltAB = "False" /\ ltBA = "True"

\* C17: every shuffle of the corpus sorts to correct_order under the
\* MockCard order, so that test_card_sorting_compatibility never returns
\* False.
C17_HybridSortTestPasses ==
    /\ pc = "sorted" => test_group = correct_order
    /\ pc # "return False"

\* C18: the eight cards built in the order of correct_order, reversed and
\* sorted, give expected_simple: test_card_number_sorting returns True.
C18_SimpleSortTestPasses ==
    (perm_group = simple_order /\ pc \in {"return True", "return False"}) =>
        (pc = "return True" /\ test_group = expected_simple)

\* C19: concurrent use is safe: whatever the interleaving of the processes
\* calling the comparison on keys that stay unchanged, each call returns
\* what the same call returns when it is made alone.
C19_ConcurrentCallsIsolated ==
    \A p \in DOMAIN frames :
        frames[p].pc = "returned" =>
            frames[p].result = card_lt(frames[p].args[1], frames[p].args[2])

\* two calls in opposite directions, each run while the other was inside
\* the function, both decided by the last lines
C19_Witness ==
    /\ DOMAIN frames = Procs
    /\ frames[1].pc = "returned" /\ frames[2].pc = "returned"
    /\ frames[1].interleaved /\ frames[2].interleaved
    /\ frames[1].args = <<A, B>> /\ frames[2].args = <<B, A>>
    /\ frames[1].result = "True" /\ frames[2].result = "False"
    /\ frames[1].self_number_clean # frames[1].other_number_clean
    /\ frames[1].self_number # frames[1].self_number_clean
    /\ frames[1].other_number # frames[1].other_number_clean

\* C21: two different numbers, neither pure-digit, with the same digit run
\* (the run substituted for a digit-less number included) compare as the
\* full number strings compare lexically when both normalized sides are
\* empty, and as the normalized sides compare otherwise.
C21_SameDigitRun ==
    (pc = "compared" /\ A.number # B.number
        /\ ~is_pure_digits(A.number) /\ ~is_pure_digits(B.number)
        /\ number_clean(A.number) = number_clean(B.number)) =>
        compare(ltAB, ltBA) =
            IF normalized_side(A.side) = << >> /\ normalized_side(B.side) = << >>
            THEN lex_compare(A.number, B.number)
            ELSE lex_compare(normalized_side(A.side), normalized_side(B.side))

\* C22: of two numbers, neither pure-digit, with different digit runs of
\* the same digit value, the one with the shorter digit run is Less,
\* whatever the sides and the lexical order of the numbers.
C22_ShorterRunFirst ==
    (pc = "compared" /\ decimal_digits(A.number) /\ decimal_digits(B.number)
        /\ ~is_pure_digits(A.number) /\ ~is_pure_digits(B.number)
        /\ number_clean(A.number) # number_clean(B.number)
        /\ digit_value(A.number) = digit_value(B.number)
        /\ Len(number_clean(A.number)) < Len(number_clean(B.number))) =>
        /\ compare(ltAB, ltBA) = "Less"
        /\ compare(ltBA, ltAB) = "Greater"

\* ("ap0a", "b") against ("00a", "a"): the greater number string and the
\* greater side on the key with the shorter digit run
C22_Witness ==
    /\ pc = "compared"
    /\ A = Key(<<97, 112, 48, 97>>, Some(<<98>>))
    /\ B = Key(<<48, 48, 97>>, Some(<<97>>))
    /\ lex_less(B.number, A.number)
    /\ ltAB = "True" /\ ltBA = "False"

\* C23: for every two digit runs, leading zeros allowed, the comparison of
\* the lengths first and of the contents at equal length gives the same
\* Less, Equal or Greater as the comparison of their integer values.
C23_LengthFirstIsIntegerOrder ==
    (pc = "compared" /\ decimal_digits(A.number) /\ decimal_digits(B.number)) =>
        length_first_compare(number_clean(A.number), number_clean(B.number))
            = int_compare(number_clean(A.number), number_clean(B.number))

\* C23 as amended: the same, with the leading zeros of each digit run
\* removed before the lengths are compared.
C23_LengthFirstWithoutZeros ==
    (pc = "compared" /\ decimal_digits(A.number) /\ decimal_digits(B.number)) =>
        length_first_compare(strip_zeros(number_clean(A.number)),
                             strip_zeros(number_clean(B.number)))
            = int_compare(number_clean(A.number), number_clean(B.number))

\* the digit runs "00" and "1": the longer run has the smaller value
C23_Witness ==
    /\ pc = "compared"
    /\ number_clean(A.number) = <<48, 48>> /\ number_clean(B.number) = <<49>>
    /\ int_compare(number_clean(A.number), number_clean(B.number)) = "Less"
    /\ length_first_compare(number_clean(A.number), number_clean(B.number))
            = "Greater"

\* C24: the manual sort ends, for any list of numbers without sides, with
\* the same cards in an order in which no later card is less than an
\* earlier one; from "00", "00a", "ap0a", "gn0a", "ml0b", "mlp0a", "1" it
\* ends with "00", "ap0a", "gn0a", "ml0b", "mlp0a", "00a", "1".
C24_ManualSortOrders ==
    pc # "listed" =>
        /\ pc = "manually sorted"
        /\ same_cards(test_group, perm_group)
        /\ \A i \in 1..Len(test_group) : \A j \in (i + 1)..Len(test_group) :
                test_python_lt(test_group[j].number, None,
                               test_group[i].number, None) = "False"
        /\ perm_group = test_numbers => test_group = expected_specific

\* C25: a key with an absent side and the key with the same number and the
\* empty side compare alike with every key, on either side of the
\* comparison and in every branch of the rule.
C25_AbsentSideIsEmptySide ==
    (pc = "compared" /\ normalized_side(A.side) = << >>) =>
        /\ compare(card_lt(other_empty_side(A), B), card_lt(B, other_empty_side(A)))
                = compare(ltAB, ltBA)
        /\ compare(card_lt(B, other_empty_side(A)), card_lt(other_empty_side(A), B))
                = compare(ltBA, ltAB)

\* ("1", None) against ("1", ""): decided by the first branch, Equal
C25_Witness ==
    /\ pc = "compared"
    /\ A = Key(<<49>>, None) /\ B = Key(<<49>>, Some(<< >>))
    /\ compare(ltAB, ltBA) = "Equal"
    /\ compare(card_lt(other_empty_side(A), B), card_lt(B, other_empty_side(A)))
            = "Equal"

C29_DigitRun ==
    pc = "compared" =>
        \A number \in {A.number, B.number} :
            /\ digit_positions(number) # {} =>
                    is_digits_in_order(number_clean(number), number)
            /\ (number_clean(number) = Sentinel) <=> (digit_positions(number) = {})
            /\ number_clean(number) # << >>

\* C29 as amended: the digit run of a number with a digit character is its
\* digit characters, all of them and in their order; the digit run of a
\* number without one is the literal "100000"; it is never the empty string.
C29_DigitRunOrSentinel ==
    pc = "compared" =>
        \A number \in {A.number, B.number} :
            /\ digit_positions(number) # {} =>
                    is_digits_in_order(number_clean(number), number)
            /\ digit_positions(number) = {} => number_clean(number) = Sentinel
            /\ number_clean(number) # << >>

\* "100000" and "": the same digit run, of six digit characters and of none
C29_Witness ==
    /\ pc = "compared"
    /\ A.number = Sentinel /\ B.number = << >>
    /\ number_clean(A.number) = Sentinel /\ number_clean(B.number) = Sentinel
    /\ is_digits_in_order(number_clean(A.number), A.number)

\* C30: a number is pure-digit, that is equal to its digit run, exactly when
\* it is not empty and all its characters are digit characters: the empty
\* number and the numbers without a digit are not, the number "100000" is.
C30_PureDigits ==
    pc = "compared" =>
        /\ \A number \in {A.number, B.number} :
                is_pure_digits(number) <=>
                    (number # << >> /\ \A i \in 1..Len(number) : isdigit(number[i]))
        /\ ~is_pure_digits(<< >>)
        /\ \A number \in {A.number, B.number} :
                digit_positions(number) = {} => ~is_pure_digits(number)
        /\ is_pure_digits(Sentinel)

\* "100000" against the symbol: the same digit run, only the first pure-digit
C30_Witness ==
    /\ pc = "compared"
    /\ A.number = Sentinel /\ B.number = <<9733>>
    /\ number_clean(A.number) = number_clean(B.number)
    /\ is_pure_digits(A.number) /\ ~is_pure_digits(B.number)
    /\ ltAB = "True"

===========================================================================
